---- MODULE Spec2Model ----
(***************************************************************************)
(* The Rule Manager of the charset switcher's background service worker    *)
(* (src/utils.js, lines 266-815): RuleManager, BackgroundStorage and the   *)
(* event listeners that drive them, against the declarativeNetRequest      *)
(* engine and chrome.storage.local.                                        *)
(*                                                                         *)
(* Granularity.  Every call of a chrome.* API that the code awaits is one  *)
(* action: the action applies the call's effect on the engine or the store *)
(* and then runs the synchronous JavaScript that follows the await, up to  *)
(* the point where the next chrome.* call is issued.  An await of an async *)
(* method that returns without reaching a chrome.* call yields to the      *)
(* microtask queue only and is not a scheduling point.  Arguments of a     *)
(* call are evaluated when the call is issued, so they are kept in the     *)
(* handler's frame (snap, settings, ids) until the action that applies it. *)
(***************************************************************************)
EXTENDS Integers, Sequences, FiniteSets, TLC

VARIABLES
    engine,          \* chrome.declarativeNetRequest dynamic rules (a set of rules)
    store,           \* chrome.storage.local: charset_settings and active_rules
    ruleIdCounter,   \* RuleManager.ruleIdCounter
    activeRules,     \* RuleManager.activeRules: Map hostname -> ruleId, in insertion order
    usedRuleIds,     \* RuleManager.usedRuleIds
    proc             \* the handlers in flight: one frame per slot

vars == <<engine, store, ruleIdCounter, activeRules, usedRuleIds, proc>>

---------------------------------------------------------------------------
(* Bounds of the model *)

\* events that may allocate are dispatched only while ruleIdCounter <= MaxRuleId
MaxRuleId == 3

\* and only while every identifier in the engine is <= MaxEngineId
MaxEngineId == 2

\* how many offers of one createCharsetRule call the engine may reject as colliding
MaxCollisions == 4

Hosts == {"a.com", "b.com"}

\* the labels events carry: two supported ones and one that is not supported
Labels == {"UTF-8", "GBK", "X-BAD"}

\* the labels of the specifications whose engine may hold rules of an earlier
\* worker
SomeSupported == {"UTF-8", "GBK"}

Slots == {"p", "q"}

---------------------------------------------------------------------------
(* Constants of the program *)

SUPPORTED_CHARSETS ==
    {"UTF-8", "GBK", "GB2312", "GB18030", "Big5", "ISO-8859-1",
     "Windows-1252", "Shift_JIS", "EUC-KR"}

\* the value of a ruleId variable that holds null / undefined (falsy in `if (ruleId)`)
NoRule == 0

\* the value of a charset variable that holds null
NoCharset == "null"

InitialCounter == 1

---------------------------------------------------------------------------
(* JavaScript Map / plain-object semantics: entries kept in insertion order *)

Has(m, k) == \E i \in DOMAIN m : m[i][1] = k

Get(m, k, dflt) ==
    IF Has(m, k) THEN m[CHOOSE i \in DOMAIN m : m[i][1] = k][2] ELSE dflt

\* Map.set / obj[k] = v: an existing key keeps its position
Put(m, k, v) ==
    IF Has(m, k)
    THEN [i \in DOMAIN m |-> IF m[i][1] = k THEN <<k, v>> ELSE m[i]]
    ELSE Append(m, <<k, v>>)

\* a delete that empties the map
DelAll(m, k) == <<>>

\* Map.delete / delete obj[k]
Del(m, k) == SelectSeq(m, LAMBDA e : e[1] # k)

---------------------------------------------------------------------------
(* The rule createCharsetRule builds, and the engine's operations *)

UrlFilter(hostname) == <<"*://", hostname, "/*">>

HeaderValue(charset) == <<"text/html; charset=", charset>>

RuleMainFrameOnly(ruleId, hostname, charset) ==
    [id        |-> ruleId,
     priority  |-> 1,
     action    |-> [type |-> "modifyHeaders",
                    responseHeaders |->
                        <<[header |-> "Content-Type", operation |-> "set",
                           value |-> HeaderValue(charset)]>>],
     condition |-> [urlFilter |-> UrlFilter(hostname),
                    resourceTypes |-> {"main_frame"}]]

Rule(ruleId, hostname, charset) ==
    [id        |-> ruleId,
     priority  |-> 1,
     action    |-> [type |-> "modifyHeaders",
                    responseHeaders |->
                        <<[header |-> "Content-Type", operation |-> "set",
                           value |-> HeaderValue(charset)]>>],
     condition |-> [urlFilter |-> UrlFilter(hostname),
                    resourceTypes |-> {"main_frame", "sub_frame"}]]

RuleIds(rules) == {r.id : r \in rules}

\* an engine that ignores removeRuleIds
RemoveNone(rules, ids) == rules

RemoveRules(rules, ids) == {r \in rules : r.id \notin ids}

\* rules of the engine whose condition matches hostname
Matching(rules, hostname) == {r \in rules : r.condition.urlFilter = UrlFilter(hostname)}

---------------------------------------------------------------------------
(* Frames *)

Fresh ==
    [ruleIdCounter |-> InitialCounter, activeRules |-> <<>>, usedRuleIds |-> {}]

Mem ==
    [ruleIdCounter |-> ruleIdCounter, activeRules |-> activeRules,
     usedRuleIds |-> usedRuleIds]

Snapshot ==
    [engine |-> engine, store |-> store, ruleIdCounter |-> ruleIdCounter,
     activeRules |-> activeRules, usedRuleIds |-> usedRuleIds]

NoSnapshot ==
    [engine |-> {}, store |-> [charset_settings |-> <<>>, active_rules |-> <<>>],
     ruleIdCounter |-> 0, activeRules |-> <<>>, usedRuleIds |-> {}]

IdleFrame ==
    [pc |-> "idle", op |-> "none", reason |-> "none", phase |-> "none",
     host |-> "none", charset |-> NoCharset,
     ruleId |-> NoRule, rmId |-> NoRule, removed |-> FALSE,
     called |-> FALSE, ret |-> NoRule,
     ids |-> {}, snap |-> <<>>, settings |-> <<>>, todo |-> <<>>,
     restoredCount |-> 0, reloaded |-> FALSE, resp |-> "none",
     pre |-> NoSnapshot]

InFlight(s) == proc[s].pc \notin {"idle", "done"}

Quiet == \A s \in Slots : ~InFlight(s)

AllIdle == \A s \in Slots : proc[s].pc = "idle"

---------------------------------------------------------------------------
(* The synchronous code between two awaited chrome.* calls.  Each operator  *)
(* takes the in-memory state m and the handler's frame f and returns both   *)
(* as they are when the next chrome.* call has been issued (f.pc names it). *)

Out(m, f) == [m |-> m, f |-> f]

Done(m, f) == Out(m, [f EXCEPT !.pc = "done"])

RECURSIVE NextFree(_, _)
\* the while loop of generateUniqueRuleId
NextFree(used, n) == IF n \in used THEN NextFree(used, n + 1) ELSE n

\* generateUniqueRuleId handing out the lowest identifier that is not in use
GenerateLowestFree(m, f) ==
    LET ruleId == NextFree(m.usedRuleIds, InitialCounter)
    IN  Out([m EXCEPT !.ruleIdCounter = ruleId + 1,
                      !.usedRuleIds = m.usedRuleIds \cup {ruleId}],
            [f EXCEPT !.pc = "cr_get", !.ruleId = ruleId])

\* generateUniqueRuleId, then the rule is built and getDynamicRules is issued
Generate(m, f) ==
    LET ruleId == NextFree(m.usedRuleIds, m.ruleIdCounter)
    IN  Out([m EXCEPT !.ruleIdCounter = ruleId + 1,
                      !.usedRuleIds = m.usedRuleIds \cup {ruleId}],
            [f EXCEPT !.pc = "cr_get", !.ruleId = ruleId])

\* a reset handler that does not call storage.removeCharsetForSite
EnterRemoveForSiteSkipped(m, f) == Done(m, [f EXCEPT !.reloaded = TRUE])

\* storage.removeCharsetForSite is entered: storage.get is issued
EnterRemoveForSite(m, f) == Out(m, [f EXCEPT !.pc = "rs_get"])

\* storage.saveCharsetForSite is entered: storage.get is issued
EnterSaveForSite(m, f) == Out(m, [f EXCEPT !.pc = "sv_get"])

\* removeCharsetRule has returned `removed` to its caller: a reset handler goes
\* on to removeCharsetForSite, createCharsetRule goes on to generate an id
AfterRemove(m, f, removed) ==
    LET g == [f EXCEPT !.removed = removed]
    IN  IF f.op \in {"menuReset", "msgRemove"}
        THEN EnterRemoveForSite(m, g)
        ELSE Generate(m, g)

\* removeCharsetRule testing `ruleId !== null`, which undefined passes
EnterRemoveUnchecked(m, f) ==
    Out(m, [f EXCEPT !.pc = "rm_engine", !.rmId = Get(m.activeRules, f.host, NoRule)])

\* removeCharsetRule(f.host) up to its first await
EnterRemove(m, f) ==
    LET ruleId == Get(m.activeRules, f.host, NoRule)
    IN  IF ruleId # NoRule
        THEN Out(m, [f EXCEPT !.pc = "rm_engine", !.rmId = ruleId])
        ELSE AfterRemove(m, f, FALSE)

\* createCharsetRule without the removal of the hostname's existing rule
EnterCreateKeepsOld(m, f) == Generate(m, [f EXCEPT !.called = TRUE])

\* createCharsetRule(f.host, f.charset) up to its first await; the retries
\* (`return await this.createCharsetRule(hostname, charset)`) re-enter here
EnterCreate(m, f) == EnterRemove(m, [f EXCEPT !.called = TRUE])

\* the for loop of restoreSavedRules over the entries left in f.todo
LoopRestore(m, f) ==
    IF f.todo = <<>>
    THEN Done(m, f)
    ELSE EnterCreate(m, [f EXCEPT !.host = Head(f.todo)[1],
                                  !.charset = Head(f.todo)[2],
                                  !.todo = Tail(f.todo)])

\* createCharsetRule has returned ret (a ruleId, or null) to its caller
AfterCreate(m, f, ret) ==
    LET g == [f EXCEPT !.ret = ret]
    IN  CASE f.op \in {"menuApply", "msgUpdate"} -> EnterSaveForSite(m, g)
          [] f.op = "tabUpdated" -> Done(m, g)
          [] OTHER ->
                LoopRestore(m, [g EXCEPT !.restoredCount =
                                    IF ret # NoRule THEN @ + 1 ELSE @])

\* after saveCharsetForSite / removeCharsetForSite in a menu or message handler:
\* chrome.tabs.reload, and sendResponse({ success: true }) for a message
AfterPersist(m, f) ==
    Done(m, [f EXCEPT !.reloaded = TRUE,
                      !.resp = IF f.op \in {"msgUpdate", "msgRemove"}
                               THEN "success" ELSE "none"])

\* initialize() is entered: getAllRuleIds issues getDynamicRules
EnterInitialize(m, f) == Out(m, [f EXCEPT !.pc = "in_get"])

\* restoreSavedRules without its call of initialize()
EnterRestoreNoInit(m, f) == Out(m, [f EXCEPT !.phase = "restore", !.pc = "rt_get"])

\* restoreSavedRules() is entered: it awaits initialize() first
EnterRestore(m, f) == EnterInitialize(m, [f EXCEPT !.phase = "restore"])

\* initialize() has returned: restoreSavedRules reads the settings, the
\* onInstalled listener goes on to createContextMenus
AfterInitialize(m, f) ==
    IF f.phase = "restore"
    THEN Out(m, [f EXCEPT !.pc = "rt_get"])
    ELSE Out(m, [f EXCEPT !.pc = "menus"])

\* createContextMenus has returned
AfterMenus(m, f) ==
    CASE f.op = "startup" -> EnterRestore(m, f)
      [] f.op = "installed" /\ f.reason = "install" ->
            Out(m, [f EXCEPT !.pc = "tab_create"])
      [] f.op = "installed" /\ f.reason = "update" -> EnterRestore(m, f)
      [] OTHER -> Done(m, f)

\* initialize() without activeRules.clear()
ResetKeepsMap(m) == [Fresh EXCEPT !.activeRules = m.activeRules]

\* the lines of initialize() that reset the counter and the tracking collections
ResetTracking(m) == Fresh

\* removeCharsetRule without usedRuleIds.delete(ruleId)
ReleaseKeepsId(m, ruleId, hostname) ==
    [m EXCEPT !.activeRules = Del(@, hostname)]

\* removeCharsetRule, after the engine removed the rule: usedRuleIds.delete(ruleId)
\* and activeRules.delete(hostname)
Release(m, ruleId, hostname) ==
    [m EXCEPT !.usedRuleIds = @ \ {ruleId}, !.activeRules = Del(@, hostname)]

\* createCharsetRule, after the engine took the rule: activeRules.set(hostname, ruleId)
Record(m, hostname, ruleId) ==
    [m EXCEPT !.activeRules = Put(@, hostname, ruleId)]

\* getAllRuleIds answering from the identifiers this worker tracks
TrackedRuleIds == RuleIds(engine) \cap usedRuleIds

\* getAllRuleIds: the ids of every rule the engine holds
GetAllRuleIds == RuleIds(engine)

---------------------------------------------------------------------------
(* State changes shared by the actions *)

Commit(s, r) ==
    /\ ruleIdCounter' = r.m.ruleIdCounter
    /\ activeRules' = r.m.activeRules
    /\ usedRuleIds' = r.m.usedRuleIds
    /\ proc' = [proc EXCEPT ![s] = r.f]

\* the frame of a listener that is invoked; the state the event arrived in is
\* remembered when events are handled one at a time
Begin(s, conc, op, hostname, charset, reason) ==
    [IdleFrame EXCEPT !.op = op, !.host = hostname, !.charset = charset,
                      !.reason = reason,
                      !.pre = IF conc THEN NoSnapshot ELSE Snapshot]

TypeOK ==
    /\ ruleIdCounter \in Nat
    /\ usedRuleIds \subseteq Nat
    /\ \A r \in engine : r.id \in Nat
    /\ \A s \in Slots : proc[s].pc \in
          {"idle", "done", "rm_engine", "rm_save", "cr_get", "cr_add", "cr_save",
           "sv_get", "sv_set", "rs_get", "rs_set", "gs_get", "tb_get",
           "in_get", "in_rm", "menus", "tab_create", "rt_get"}

Init ==
    /\ engine = {}
    /\ store = [charset_settings |-> <<>>, active_rules |-> <<>>]
    /\ ruleIdCounter = InitialCounter
    /\ activeRules = <<>>
    /\ usedRuleIds = {}
    /\ proc = [s \in Slots |-> IdleFrame]

---------------------------------------------------------------------------
(* Events: a listener is invoked and runs up to its first awaited call.     *)
(* conc = FALSE: an event is dispatched only when no handler is in flight.  *)

CanStart(s, conc) ==
    /\ proc[s].pc = "idle"
    /\ IF conc
       THEN s = "p" \/ proc["p"].pc # "idle"
       ELSE s = "p" /\ AllIdle

\* the bounds on identifiers: an event that may allocate is dispatched only
\* while the counter and the identifiers in the engine are within them
MayAllocate ==
    /\ ruleIdCounter <= MaxRuleId
    /\ \A r \in engine : r.id <= MaxEngineId

\* contextMenus.onClicked with menuItemId `charset-<charset>`
MenuApply(s, conc, hostname, charset) ==
    /\ CanStart(s, conc)
    /\ MayAllocate
    /\ LET f == Begin(s, conc, "menuApply", hostname, charset, "none")
       IN  Commit(s, IF charset \in SUPPORTED_CHARSETS
                     THEN EnterCreate(Mem, f)
                     ELSE Done(Mem, f))
    /\ UNCHANGED <<engine, store>>

\* contextMenus.onClicked with menuItemId `charset-reset`
MenuReset(s, conc, hostname) ==
    /\ CanStart(s, conc)
    /\ Commit(s, EnterRemove(Mem, Begin(s, conc, "menuReset", hostname, NoCharset, "none")))
    /\ UNCHANGED <<engine, store>>

\* runtime.onMessage, action 'updateCharset'
MsgUpdate(s, conc, hostname, charset) ==
    /\ CanStart(s, conc)
    /\ MayAllocate
    /\ Commit(s, EnterCreate(Mem, Begin(s, conc, "msgUpdate", hostname, charset, "none")))
    /\ UNCHANGED <<engine, store>>

\* runtime.onMessage, action 'removeCharset'
MsgRemove(s, conc, hostname) ==
    /\ CanStart(s, conc)
    /\ Commit(s, EnterRemove(Mem, Begin(s, conc, "msgRemove", hostname, NoCharset, "none")))
    /\ UNCHANGED <<engine, store>>

\* runtime.onMessage, action 'getCharsetForSite'
MsgGet(s, conc, hostname) ==
    /\ CanStart(s, conc)
    /\ Commit(s, Out(Mem, [Begin(s, conc, "msgGet", hostname, NoCharset, "none")
                              EXCEPT !.pc = "gs_get"]))
    /\ UNCHANGED <<engine, store>>

\* runtime.onInstalled with details.reason = reason
Installed(s, conc, reason) ==
    /\ CanStart(s, conc)
    /\ Commit(s, EnterInitialize(Mem, [Begin(s, conc, "installed", "none", NoCharset, reason)
                                          EXCEPT !.phase = "direct"]))
    /\ UNCHANGED <<engine, store>>

\* runtime.onStartup: createContextMenus is awaited first
Startup(s, conc) ==
    /\ CanStart(s, conc)
    /\ Commit(s, Out(Mem, [Begin(s, conc, "startup", "none", NoCharset, "none")
                              EXCEPT !.pc = "menus"]))
    /\ UNCHANGED <<engine, store>>

\* tabs.onUpdated with changeInfo.status = 'complete' for a page of hostname
TabUpdated(s, conc, hostname) ==
    /\ CanStart(s, conc)
    /\ MayAllocate
    /\ Commit(s, Out(Mem, [Begin(s, conc, "tabUpdated", hostname, NoCharset, "none")
                              EXCEPT !.pc = "tb_get"]))
    /\ UNCHANGED <<engine, store>>

---------------------------------------------------------------------------
(* One action per awaited chrome.* call.  EF and SF are the outcomes the    *)
(* engine and the store may give a call: TRUE it succeeds, FALSE it rejects. *)

\* removeCharsetRule: updateDynamicRules({ removeRuleIds: [ruleId] })
RmEngine(s, EF) ==
    /\ proc[s].pc = "rm_engine"
    /\ \E ok \in EF :
        LET f == proc[s]
            m == Release(Mem, f.rmId, f.host)
        IN  IF ok
            THEN /\ engine' = RemoveRules(engine, {f.rmId})
                 /\ Commit(s, Out(m, [f EXCEPT !.pc = "rm_save",
                                               !.snap = m.activeRules]))
            ELSE /\ engine' = engine
                 /\ Commit(s, AfterRemove(Mem, f, FALSE))
    /\ UNCHANGED store

\* removeCharsetRule: storage.saveActiveRules (a rejection is caught and logged)
RmSave(s, SF) ==
    /\ proc[s].pc = "rm_save"
    /\ \E ok \in SF :
        /\ store' = IF ok THEN [store EXCEPT !.active_rules = proc[s].snap] ELSE store
        /\ Commit(s, AfterRemove(Mem, proc[s], TRUE))
    /\ UNCHANGED engine

\* createCharsetRule releasing a conflicting id before it regenerates
CrGetReleasing(s, EF) ==
    /\ proc[s].pc = "cr_get"
    /\ \E ok \in EF :
        LET f == proc[s]
            m == [Mem EXCEPT !.usedRuleIds = @ \ {f.ruleId}]
        IN  Commit(s, IF ~ok THEN AfterCreate(Mem, f, NoRule)
                      ELSE IF f.ruleId \in RuleIds(engine) THEN EnterCreate(m, f)
                      ELSE Out(Mem, [f EXCEPT !.pc = "cr_add"]))
    /\ UNCHANGED <<engine, store>>

\* createCharsetRule: getDynamicRules and the search for a conflicting id
CrGet(s, EF) ==
    /\ proc[s].pc = "cr_get"
    /\ \E ok \in EF :
        LET f == proc[s]
        IN  Commit(s, IF ~ok THEN AfterCreate(Mem, f, NoRule)
                      ELSE IF f.ruleId \in RuleIds(engine) THEN EnterCreate(Mem, f)
                      ELSE Out(Mem, [f EXCEPT !.pc = "cr_add"]))
    /\ UNCHANGED <<engine, store>>

\* createCharsetRule: updateDynamicRules({ addRules: [rule] }).  The engine
\* rejects an id it already holds with a 'unique ID' error, which is retried;
\* any other rejection makes createCharsetRule return null
CrAdd(s, EF) ==
    /\ proc[s].pc = "cr_add"
    /\ \E ok \in EF :
        LET f == proc[s]
            m == Record(Mem, f.host, f.ruleId)
        IN  IF ~ok
            THEN /\ engine' = engine
                 /\ Commit(s, AfterCreate(Mem, f, NoRule))
            ELSE IF f.ruleId \in RuleIds(engine)
            THEN /\ engine' = engine
                 /\ Commit(s, EnterCreate(Mem, f))
            ELSE /\ engine' = engine \cup {Rule(f.ruleId, f.host, f.charset)}
                 /\ Commit(s, Out(m, [f EXCEPT !.pc = "cr_save",
                                               !.snap = m.activeRules]))
    /\ UNCHANGED store

\* createCharsetRule: storage.saveActiveRules, then `return ruleId`
CrSave(s, SF) ==
    /\ proc[s].pc = "cr_save"
    /\ \E ok \in SF :
        /\ store' = IF ok THEN [store EXCEPT !.active_rules = proc[s].snap] ELSE store
        /\ Commit(s, AfterCreate(Mem, proc[s], proc[s].ruleId))
    /\ UNCHANGED engine

\* saveCharsetForSite: storage.get, then settings[hostname] = charset
SvGet(s, SF) ==
    /\ proc[s].pc = "sv_get"
    /\ \E ok \in SF :
        LET f == proc[s]
        IN  Commit(s, IF ok
                      THEN Out(Mem, [f EXCEPT !.pc = "sv_set",
                                 !.settings = Put(store.charset_settings, f.host, f.charset)])
                      ELSE AfterPersist(Mem, f))
    /\ UNCHANGED <<engine, store>>

\* saveCharsetForSite: storage.set
SvSet(s, SF) ==
    /\ proc[s].pc = "sv_set"
    /\ \E ok \in SF :
        /\ store' = IF ok THEN [store EXCEPT !.charset_settings = proc[s].settings]
                          ELSE store
        /\ Commit(s, AfterPersist(Mem, proc[s]))
    /\ UNCHANGED engine

\* removeCharsetForSite: storage.get, then delete settings[hostname]
RsGet(s, SF) ==
    /\ proc[s].pc = "rs_get"
    /\ \E ok \in SF :
        LET f == proc[s]
        IN  Commit(s, IF ok
                      THEN Out(Mem, [f EXCEPT !.pc = "rs_set",
                                 !.settings = Del(store.charset_settings, f.host)])
                      ELSE AfterPersist(Mem, f))
    /\ UNCHANGED <<engine, store>>

\* removeCharsetForSite: storage.set
RsSet(s, SF) ==
    /\ proc[s].pc = "rs_set"
    /\ \E ok \in SF :
        /\ store' = IF ok THEN [store EXCEPT !.charset_settings = proc[s].settings]
                          ELSE store
        /\ Commit(s, AfterPersist(Mem, proc[s]))
    /\ UNCHANGED engine

\* the 'getCharsetForSite' message answered for the hostnames of activeRules only
GsGetTrackedOnly(s, SF) ==
    /\ proc[s].pc = "gs_get"
    /\ \E ok \in SF :
        LET f == proc[s]
            siteCharset == IF ok /\ Has(activeRules, f.host)
                           THEN Get(store.charset_settings, f.host, NoCharset)
                           ELSE NoCharset
        IN  Commit(s, Done(Mem, [f EXCEPT !.charset = siteCharset, !.resp = "charset"]))
    /\ UNCHANGED <<engine, store>>

\* getCharsetForSite for the 'getCharsetForSite' message: sendResponse({ charset })
GsGet(s, SF) ==
    /\ proc[s].pc = "gs_get"
    /\ \E ok \in SF :
        LET f == proc[s]
            siteCharset == IF ok THEN Get(store.charset_settings, f.host, NoCharset)
                           ELSE NoCharset
        IN  Commit(s, Done(Mem, [f EXCEPT !.charset = siteCharset, !.resp = "charset"]))
    /\ UNCHANGED <<engine, store>>

\* the tabs.onUpdated listener without the test of activeRules.has(hostname)
TbGetUnguarded(s, SF) ==
    /\ proc[s].pc = "tb_get"
    /\ \E ok \in SF :
        LET f == proc[s]
            savedCharset == IF ok THEN Get(store.charset_settings, f.host, NoCharset)
                            ELSE NoCharset
        IN  Commit(s, IF savedCharset # NoCharset
                      THEN EnterCreate(Mem, [f EXCEPT !.charset = savedCharset])
                      ELSE Done(Mem, f))
    /\ UNCHANGED <<engine, store>>

\* getCharsetForSite in the tabs.onUpdated listener, and its test
TbGet(s, SF) ==
    /\ proc[s].pc = "tb_get"
    /\ \E ok \in SF :
        LET f == proc[s]
            savedCharset == IF ok THEN Get(store.charset_settings, f.host, NoCharset)
                            ELSE NoCharset
        IN  Commit(s, IF savedCharset # NoCharset /\ ~Has(activeRules, f.host)
                      THEN EnterCreate(Mem, [f EXCEPT !.charset = savedCharset])
                      ELSE Done(Mem, f))
    /\ UNCHANGED <<engine, store>>

\* initialize: getAllRuleIds (a rejection is caught there and gives [])
InGet(s, EF) ==
    /\ proc[s].pc = "in_get"
    /\ \E ok \in EF :
        LET f == proc[s]
            existingRuleIds == IF ok THEN GetAllRuleIds ELSE {}
        IN  Commit(s, IF existingRuleIds # {}
                      THEN Out(Mem, [f EXCEPT !.pc = "in_rm", !.ids = existingRuleIds])
                      ELSE AfterInitialize(ResetTracking(Mem), f))
    /\ UNCHANGED <<engine, store>>

\* initialize: updateDynamicRules({ removeRuleIds: existingRuleIds }); a
\* rejection skips the reset of the counter and the tracking collections
InRm(s, EF) ==
    /\ proc[s].pc = "in_rm"
    /\ \E ok \in EF :
        IF ok
        THEN /\ engine' = RemoveRules(engine, proc[s].ids)
             /\ Commit(s, AfterInitialize(ResetTracking(Mem), proc[s]))
        ELSE /\ engine' = engine
             /\ Commit(s, AfterInitialize(Mem, proc[s]))
    /\ UNCHANGED store

\* createContextMenus: contextMenus.removeAll, then the menus are created
Menus(s) ==
    /\ proc[s].pc = "menus"
    /\ Commit(s, AfterMenus(Mem, proc[s]))
    /\ UNCHANGED <<engine, store>>

\* onInstalled, reason 'install': tabs.create of the welcome page
TabCreate(s) ==
    /\ proc[s].pc = "tab_create"
    /\ Commit(s, Done(Mem, proc[s]))
    /\ UNCHANGED <<engine, store>>

\* restoreSavedRules: storage.get('charset_settings'), then the loop
RtGet(s, SF) ==
    /\ proc[s].pc = "rt_get"
    /\ \E ok \in SF :
        LET f == proc[s]
        IN  Commit(s, IF ok
                      THEN LoopRestore(Mem, [f EXCEPT !.todo = store.charset_settings])
                      ELSE Done(Mem, f))
    /\ UNCHANGED <<engine, store>>

\* the listener's promise has settled: its frame is dropped
Finish(s) ==
    /\ proc[s].pc = "done"
    /\ proc' = [proc EXCEPT ![s] = IdleFrame]
    /\ UNCHANGED <<engine, store, ruleIdCounter, activeRules, usedRuleIds>>

---------------------------------------------------------------------------
(* Specifications *)

Reasons == {"install", "update", "chrome_update"}

Events(conc, labels) ==
    \E s \in Slots :
        \/ \E h \in Hosts, c \in labels : MenuApply(s, conc, h, c)
        \/ \E h \in Hosts : MenuReset(s, conc, h)
        \/ \E h \in Hosts, c \in labels : MsgUpdate(s, conc, h, c)
        \/ \E h \in Hosts : MsgRemove(s, conc, h)
        \/ \E h \in Hosts : MsgGet(s, conc, h)
        \/ \E r \in Reasons : Installed(s, conc, r)
        \/ Startup(s, conc)
        \/ \E h \in Hosts : TabUpdated(s, conc, h)

Steps(EF, SF) ==
    \E s \in Slots :
        \/ RmEngine(s, EF) \/ RmSave(s, SF)
        \/ CrGet(s, EF) \/ CrAdd(s, EF) \/ CrSave(s, SF)
        \/ SvGet(s, SF) \/ SvSet(s, SF)
        \/ RsGet(s, SF) \/ RsSet(s, SF)
        \/ GsGet(s, SF) \/ TbGet(s, SF)
        \/ InGet(s, EF) \/ InRm(s, EF)
        \/ Menus(s) \/ TabCreate(s) \/ RtGet(s, SF)
        \/ Finish(s)

\* The service worker is stopped while no listener runs and started again by
\* the next event: the script is evaluated anew, so `new RuleManager()` gives
\* the in-memory state its constructor values; engine and store are kept.
WorkerRestart ==
    /\ AllIdle
    /\ Mem # Fresh
    /\ ruleIdCounter' = Fresh.ruleIdCounter
    /\ activeRules' = Fresh.activeRules
    /\ usedRuleIds' = Fresh.usedRuleIds
    /\ UNCHANGED <<engine, store, proc>>

\* one worker incarnation, events handled one at a time, every call succeeds
Next == Events(FALSE, Labels) \/ Steps({TRUE}, {TRUE})

Spec == Init /\ [][Next]_vars

\* as Spec, and the worker may be restarted between two events
NextRestart == Events(FALSE, SomeSupported) \/ Steps({TRUE}, {TRUE}) \/ WorkerRestart

SpecRestart == Init /\ [][NextRestart]_vars

\* apply and reset events only, handled one at a time; the engine may reject
\* an install (updateDynamicRules with addRules), every other call succeeds
ApplyEvents ==
    \E s \in Slots :
        \/ \E h \in Hosts, c \in Labels : MenuApply(s, FALSE, h, c)
        \/ \E h \in Hosts : MenuReset(s, FALSE, h)
        \/ \E h \in Hosts, c \in Labels : MsgUpdate(s, FALSE, h, c)
        \/ \E h \in Hosts : MsgRemove(s, FALSE, h)

ApplySteps(AF) ==
    \E s \in Slots :
        \/ RmEngine(s, {TRUE}) \/ RmSave(s, {TRUE})
        \/ CrGet(s, {TRUE}) \/ CrAdd(s, AF) \/ CrSave(s, {TRUE})
        \/ SvGet(s, {TRUE}) \/ SvSet(s, {TRUE})
        \/ RsGet(s, {TRUE}) \/ RsSet(s, {TRUE})
        \/ Finish(s)

NextApply == ApplyEvents \/ ApplySteps(BOOLEAN)

SpecApply == Init /\ [][NextApply]_vars

\* the identifiers the createCharsetRule call of an apply handler has offered so
\* far: within one worker incarnation each generateUniqueRuleId takes the counter
OffersMade(s) ==
    IF proc[s].op \in {"menuApply", "msgUpdate"} /\ proc[s].pc \in {"cr_get", "cr_add"}
    THEN proc[s].ruleId + 1 - proc[s].pre.ruleIdCounter
    ELSE 0

\* createCharsetRule: updateDynamicRules({ addRules }) is rejected with a
\* 'unique ID' error whatever the engine holds; the catch block calls
\* createCharsetRule again
CrAddCollides(s) ==
    /\ proc[s].pc = "cr_add"
    /\ OffersMade(s) <= MaxCollisions
    /\ Commit(s, EnterCreate(Mem, proc[s]))
    /\ UNCHANGED <<engine, store>>

\* apply and reset events only, handled one at a time; the engine may reject
\* any install as a collision of identifiers, every other call succeeds
NextCollide ==
    \/ ApplyEvents
    \/ ApplySteps({TRUE})
    \/ \E s \in Slots : CrAddCollides(s)

SpecCollide == Init /\ [][NextCollide]_vars

\* the awaited calls of the apply and reset handlers; the store may reject a
\* write (storage.set), every other call succeeds
WriteFaultSteps ==
    \E s \in Slots :
        \/ RmEngine(s, {TRUE}) \/ RmSave(s, BOOLEAN)
        \/ CrGet(s, {TRUE}) \/ CrAdd(s, {TRUE}) \/ CrSave(s, BOOLEAN)
        \/ SvGet(s, {TRUE}) \/ SvSet(s, BOOLEAN)
        \/ RsGet(s, {TRUE}) \/ RsSet(s, BOOLEAN)
        \/ Finish(s)

\* apply and reset events only, handled one at a time; store writes may fail
NextWriteFault == ApplyEvents \/ WriteFaultSteps

SpecWriteFault == Init /\ [][NextWriteFault]_vars

\* the awaited calls of an apply handler, all succeeding
CreateSteps ==
    \E s \in Slots :
        \/ RmEngine(s, {TRUE}) \/ RmSave(s, {TRUE})
        \/ CrGet(s, {TRUE}) \/ CrAdd(s, {TRUE}) \/ CrSave(s, {TRUE})
        \/ SvGet(s, {TRUE}) \/ SvSet(s, {TRUE})
        \/ Finish(s)

\* the awaited calls of the onStartup listener, all succeeding
StartupSteps ==
    \E s \in Slots :
        \/ Menus(s)
        \/ InGet(s, {TRUE}) \/ InRm(s, {TRUE})
        \/ RtGet(s, {TRUE})

\* menu clicks arriving while another menu click is being handled: the two
\* handlers interleave at every awaited call
NextRace ==
    \/ \E s \in Slots, h \in Hosts, c \in SomeSupported : MenuApply(s, TRUE, h, c)
    \/ CreateSteps

SpecRace == Init /\ [][NextRace]_vars

\* menu clicks arriving while an onStartup event is being handled, and onStartup
\* events arriving while a menu click is: the two handlers interleave at every
\* awaited call
NextStartupRace ==
    \/ Startup("p", TRUE)
    \/ \E h \in Hosts : MenuApply("q", TRUE, h, "GBK")
    \/ StartupSteps
    \/ CreateSteps

SpecStartupRace == Init /\ [][NextStartupRace]_vars

\* the awaited calls of a reset handler after removeCharsetRule, and the read
\* of the tabs.onUpdated listener, all succeeding
ResetTabSteps ==
    \E s \in Slots :
        \/ RsGet(s, {TRUE}) \/ RsSet(s, {TRUE})
        \/ TbGet(s, {TRUE})

\* tab-navigation events arriving while a menu click (apply or reset) is being
\* handled: the two handlers interleave at every awaited call
NextResetRace ==
    \/ \E h \in Hosts : MenuApply("p", TRUE, h, "GBK")
    \/ \E h \in Hosts : MenuReset("p", TRUE, h)
    \/ \E h \in Hosts : TabUpdated("q", TRUE, h)
    \/ ResetTabSteps
    \/ CreateSteps

SpecResetRace == Init /\ [][NextResetRace]_vars

---------------------------------------------------------------------------
(* Properties *)

ApplyOps == {"menuApply", "msgUpdate"}

ResetOps == {"menuReset", "msgRemove"}

\* createCharsetRule, called by an apply or a tab-update handler, has returned
CreateReturned(s) ==
    /\ proc[s].called
    /\ \/ proc[s].op \in ApplyOps /\ proc[s].pc \in {"sv_get", "sv_set", "done"}
       \/ proc[s].op = "tabUpdated" /\ proc[s].pc = "done"

\* restoreSavedRules, called by the startup or the update hook, has returned
RestoreReturned(s) ==
    /\ proc[s].pc = "done"
    /\ \/ proc[s].op = "startup"
       \/ proc[s].op = "installed" /\ proc[s].reason = "update"

\* initialize() has just returned to the onInstalled listener or to restoreSavedRules
InitializeReturned(s) ==
    \/ proc[s].op = "installed" /\ proc[s].pc = "menus"
    \/ proc[s].op \in {"installed", "startup"} /\ proc[s].pc = "rt_get"

\* r rewrites Content-Type to 'text/html; charset=<charset>' for page and frame loads
Rewrites(r, charset) ==
    /\ r.action.type = "modifyHeaders"
    /\ r.action.responseHeaders =
          <<[header |-> "Content-Type", operation |-> "set",
             value |-> <<"text/html; charset=", charset>>]>>
    /\ r.condition.resourceTypes = {"main_frame", "sub_frame"}

\* a rule of `rules` that the map `tracked` does not hold
Untracked(rules, tracked) ==
    {r \in rules : \A i \in DOMAIN tracked : tracked[i][2] # r.id}

\* C1: when createCharsetRule(H, C) with a supported C has returned, the engine
\* holds exactly one rule matching H, that rule sets Content-Type to
\* 'text/html; charset=C' for main_frame and sub_frame, its id is the value
\* returned, and activeRules maps H to it.
C1_CreateInstallsOneRule ==
    \A s \in Slots :
        (CreateReturned(s) /\ proc[s].charset \in SUPPORTED_CHARSETS) =>
            LET f == proc[s]
                rs == Matching(engine, f.host)
            IN  /\ Cardinality(rs) = 1
                /\ \A r \in rs : /\ Rewrites(r, f.charset)
                                 /\ f.ret = r.id
                                 /\ Get(activeRules, f.host, NoRule) = r.id

\* a create for a hostname that had a rule with another charset has returned
C1_Witness ==
    \E s \in Slots :
        /\ CreateReturned(s) /\ proc[s].pc = "done"
        /\ proc[s].charset \in SUPPORTED_CHARSETS
        /\ \E r \in Matching(proc[s].pre.engine, proc[s].host) :
              ~Rewrites(r, proc[s].charset)

\* C2: when createCharsetRule(H, C2) has returned in a state where H's active
\* rule was the rule i that an earlier createCharsetRule(H, C1) installed, the
\* engine holds exactly one rule for H and it carries C2, and i is neither in
\* usedRuleIds nor the id of a rule in the engine.
C2_ReplaceFreesOldId ==
    \A s \in Slots, c1 \in Labels :
        LET f == proc[s]
            i == Get(f.pre.activeRules, f.host, NoRule)
        IN  (CreateReturned(s) /\ i # NoRule /\ Rule(i, f.host, c1) \in f.pre.engine) =>
                /\ Cardinality(Matching(engine, f.host)) = 1
                /\ \A r \in Matching(engine, f.host) : Rewrites(r, f.charset)
                /\ i \notin usedRuleIds
                /\ i \notin RuleIds(engine)

\* an apply handler is done whose create replaced the rule an earlier create
\* installed for the same hostname with another charset
C2_Witness ==
    \E s \in Slots :
        LET f == proc[s]
            i == Get(f.pre.activeRules, f.host, NoRule)
        IN  /\ CreateReturned(s) /\ f.pc = "done" /\ f.op \in ApplyOps
            /\ i # NoRule
            /\ \E c1 \in Labels \ {f.charset} : Rule(i, f.host, c1) \in f.pre.engine

\* C3: when restoreSavedRules() has returned, with M the persisted
\* charset_settings, the engine holds exactly |M| rules: for each H -> C of M
\* exactly one rule matching H, rewriting Content-Type to 'text/html; charset=C',
\* and no other rule, whatever the engine and the memory held before.
C3_RestoreInstallsIntent ==
    \A s \in Slots :
        RestoreReturned(s) =>
            LET M == store.charset_settings
            IN  /\ Cardinality(engine) = Len(M)
                /\ \A i \in DOMAIN M :
                      /\ Cardinality(Matching(engine, M[i][1])) = 1
                      /\ \A r \in Matching(engine, M[i][1]) : Rewrites(r, M[i][2])
                /\ \A r \in engine : \E i \in DOMAIN M : r \in Matching(engine, M[i][1])

\* restoreSavedRules has returned with two intents, and the engine held before
\* a rule this worker did not track, at odds with the intent of its hostname
C3_Witness ==
    \E s \in Slots :
        /\ RestoreReturned(s)
        /\ Len(store.charset_settings) = 2
        /\ \E r \in Untracked(proc[s].pre.engine, proc[s].pre.activeRules) :
              \A i \in DOMAIN store.charset_settings :
                  ~(/\ r \in Matching(proc[s].pre.engine, store.charset_settings[i][1])
                    /\ Rewrites(r, store.charset_settings[i][2]))

\* C4: when initialize() has returned, the engine holds no rule, activeRules and
\* usedRuleIds are empty and ruleIdCounter is 1, whatever the engine held before.
C4_InitializeClears ==
    \A s \in Slots :
        InitializeReturned(s) =>
            /\ engine = {}
            /\ activeRules = <<>>
            /\ usedRuleIds = {}
            /\ ruleIdCounter = 1

\* initialize has returned, and the engine held a rule this worker never tracked
C4_Witness ==
    \E s \in Slots :
        /\ InitializeReturned(s)
        /\ proc[s].phase = "direct"
        /\ Untracked(proc[s].pre.engine, proc[s].pre.activeRules) # {}
        /\ proc[s].pre.usedRuleIds # {}

\* C5: when a reset of H has completed and H had the active rule i, then
\* removeCharsetRule returned true, no engine rule has id i, i is not in
\* usedRuleIds, and H has no entry in activeRules, in the persisted active_rules
\* and in the persisted charset_settings.
C5_ResetRemovesEverything ==
    \A s \in Slots :
        LET f == proc[s]
            i == Get(f.pre.activeRules, f.host, NoRule)
        IN  (f.pc = "done" /\ f.op \in ResetOps /\ i # NoRule) =>
                /\ f.removed = TRUE
                /\ i \notin RuleIds(engine)
                /\ i \notin usedRuleIds
                /\ ~Has(activeRules, f.host)
                /\ ~Has(store.active_rules, f.host)
                /\ ~Has(store.charset_settings, f.host)

\* a reset has completed for a hostname that had its rule in the engine, its
\* entry in the snapshot and its intent
C5_Witness ==
    \E s \in Slots :
        LET f == proc[s]
            i == Get(f.pre.activeRules, f.host, NoRule)
        IN  /\ f.pc = "done" /\ f.op \in ResetOps /\ i # NoRule
            /\ i \in RuleIds(f.pre.engine)
            /\ Has(f.pre.store.active_rules, f.host)
            /\ Has(f.pre.store.charset_settings, f.host)

\* C6: when removeCharsetRule(H) has returned to a reset handler and activeRules
\* had no entry for H, it returned false and the engine, activeRules,
\* usedRuleIds, ruleIdCounter and the store are as they were.
C6_RemoveWithoutRuleIsNoOp ==
    \A s \in Slots :
        LET f == proc[s]
        IN  (f.op \in ResetOps /\ f.pc = "rs_get" /\ ~Has(f.pre.activeRules, f.host)) =>
                /\ f.removed = FALSE
                /\ Snapshot = f.pre

\* removeCharsetRule has returned for a hostname without entry, while the engine
\* holds a rule matching it and the store an intent for it
C6_Witness ==
    \E s \in Slots :
        LET f == proc[s]
        IN  /\ f.op \in ResetOps /\ f.pc = "rs_get" /\ ~Has(f.pre.activeRules, f.host)
            /\ Matching(engine, f.host) # {}
            /\ Has(store.charset_settings, f.host)
            /\ activeRules # <<>>

\* C7: in every state, the engine holds at most one rule matching a hostname and
\* activeRules at most one entry for it.
C7_OneRulePerHost ==
    \A h \in Hosts :
        /\ Cardinality(Matching(engine, h)) <= 1
        /\ Cardinality({i \in DOMAIN activeRules : activeRules[i][1] = h}) <= 1

\* a rule has replaced the rule of the same hostname, another hostname has a rule
C7_Witness ==
    \E s \in Slots :
        /\ CreateReturned(s)
        /\ Matching(proc[s].pre.engine, proc[s].host) # {}
        /\ Matching(proc[s].pre.engine, proc[s].host) # Matching(engine, proc[s].host)
        /\ Cardinality(engine) = 2

\* C8: whenever no handler is in flight, the engine holds a rule for H with
\* charset C if and only if the persisted charset_settings holds H -> C.
C8_EffectMatchesIntent ==
    Quiet =>
        \A h \in Hosts, c \in Labels :
            (\E r \in Matching(engine, h) : Rewrites(r, c))
                <=> Get(store.charset_settings, h, NoCharset) = c

\* C9: the identifier createCharsetRule holds after generateUniqueRuleId is in
\* usedRuleIds and is not the identifier of another hostname's active rule;
\* activeRules is injective; no two rules of the engine share an id.
C9_IdentifiersUnique ==
    /\ \A s \in Slots :
          proc[s].pc \in {"cr_get", "cr_add", "cr_save"} =>
              /\ proc[s].ruleId \in usedRuleIds
              /\ \A i \in DOMAIN activeRules :
                    activeRules[i][2] = proc[s].ruleId => activeRules[i][1] = proc[s].host
    /\ \A i, j \in DOMAIN activeRules :
          activeRules[i][2] = activeRules[j][2] => i = j
    /\ \A r1, r2 \in engine : r1.id = r2.id => r1 = r2

\* two hostnames have active rules, after an identifier was released
C9_Witness ==
    /\ Len(activeRules) = 2
    /\ Cardinality(engine) = 2
    /\ \E n \in 1..MaxRuleId :
          n < ruleIdCounter /\ n \notin usedRuleIds /\ n \notin RuleIds(engine)

\* C10: an 'updateCharset' message is answered { success: true } only when
\* createCharsetRule returned a ruleId and the rule is in the engine.
C10_SuccessOnlyWhenInstalled ==
    \A s \in Slots :
        LET f == proc[s]
        IN  (f.pc = "done" /\ f.op = "msgUpdate" /\ f.resp = "success") =>
                /\ f.ret # NoRule
                /\ \E r \in Matching(engine, f.host) : Rewrites(r, f.charset)

\* C11: a request to apply a charset that is not in SUPPORTED_CHARSETS changes
\* nothing on any entry path: when a menu click or an 'updateCharset' message
\* with such a label has been handled, engine, map, allocator and store are as
\* they were when the event arrived and the message is not answered
\* { success: true }; and no rule of the engine (restoreSavedRules replay
\* included) ever carries such a label.
C11_UnsupportedRejected ==
    /\ \A s \in Slots :
          LET f == proc[s]
          IN  (f.pc = "done" /\ f.op \in ApplyOps /\ f.charset \notin SUPPORTED_CHARSETS) =>
                  /\ Snapshot = f.pre
                  /\ f.resp # "success"
    /\ \A r \in engine, c \in Labels \ SUPPORTED_CHARSETS : ~Rewrites(r, c)

\* C12: createCharsetRule stops retrying while the engine keeps rejecting its
\* identifiers as colliding: a call never offers more identifiers than some
\* maximum (here: once MaxCollisions offers were rejected, it returns null
\* instead of offering another identifier).
C12_RetryBounded ==
    \A s \in Slots : OffersMade(s) <= MaxCollisions

\* C13: when an onInstalled event with reason 'install' has been handled the
\* engine is empty; when any other onInstalled event or an onStartup event has
\* been handled, the engine holds exactly one rule per entry of the persisted
\* charset_settings, carrying that entry's charset, and no other rule.
C13_StartupHooksReconcile ==
    \A s \in Slots :
        LET f == proc[s]
            M == store.charset_settings
        IN  (f.pc = "done" /\ f.op \in {"installed", "startup"}) =>
                IF f.op = "installed" /\ f.reason = "install"
                THEN engine = {}
                ELSE /\ Cardinality(engine) = Len(M)
                     /\ \A i \in DOMAIN M :
                           \E r \in engine :
                               /\ Matching(engine, M[i][1]) = {r}
                               /\ Rewrites(r, M[i][2])

\* the charset the store holds for hostname (getCharsetForSite's settings[hostname] || null)
Intent(st, hostname) == Get(st.charset_settings, hostname, NoCharset)

\* C14: the persisted intent round-trips.  When an apply of C to H has been
\* handled the store holds H -> C, when a reset of H has been handled it holds
\* nothing for H; no step other than one of an apply or reset handler for H
\* changes what the store holds for H (a worker restart included); and the
\* 'getCharsetForSite' message is answered with what the store holds for H.
C14_IntentRoundTrip ==
    /\ [](\A s \in Slots :
            LET f == proc[s]
            IN  f.pc = "done" =>
                    /\ (f.op \in ApplyOps /\ f.called) => Intent(store, f.host) = f.charset
                    /\ f.op \in ResetOps => Intent(store, f.host) = NoCharset
                    /\ f.op = "msgGet" => f.charset = Intent(store, f.host))
    /\ [][\A h \in Hosts :
            Intent(store', h) # Intent(store, h) =>
                \E s \in Slots : /\ proc[s].op \in ApplyOps \cup ResetOps
                                 /\ proc[s].host = h
                                 /\ InFlight(s)]_vars

\* a restarted worker, tracking nothing for H while the engine still holds H's
\* rule, has answered 'getCharsetForSite' for H with the charset applied before
C14_Witness ==
    \E s \in Slots :
        /\ proc[s].op = "msgGet" /\ proc[s].pc = "done"
        /\ proc[s].charset \in SomeSupported
        /\ ~Has(activeRules, proc[s].host)
        /\ \E r \in Matching(engine, proc[s].host) : Rewrites(r, proc[s].charset)

\* C15: whenever no handler is in flight, every identifier in usedRuleIds is
\* the id of a rule the engine holds, whether the engine accepted or rejected
\* the calls made so far.
C15_UsedIdsInstalled ==
    Quiet => usedRuleIds \subseteq RuleIds(engine)

\* C16: in every interleaving of handlers, an identifier submitted to
\* updateDynamicRules({ addRules }) is not the id of a rule the engine holds,
\* from its submission until the engine processes the call: the engine never
\* has to reject an install for a duplicate id.
C16_NoDuplicateSubmitted ==
    \A s \in Slots :
        proc[s].pc = "cr_add" => proc[s].ruleId \notin RuleIds(engine)

\* the identifiers generateUniqueRuleId returns in the step: those that enter usedRuleIds
Allocated == usedRuleIds' \ usedRuleIds

\* C17: between two calls of initialize() the identifiers generateUniqueRuleId
\* returns are strictly increasing.  ruleIdCounter is above every identifier in
\* use; each identifier returned is at least the counter and the counter moves
\* above it; the counter goes down in no step but the reset of initialize().
\* So an identifier returned is above every one returned since the last
\* initialize(), the released ones included.
C17_AllocatorMonotonic ==
    /\ [](/\ \A n \in usedRuleIds : n < ruleIdCounter
          /\ \A i \in DOMAIN activeRules : activeRules[i][2] < ruleIdCounter
          /\ \A s \in Slots : proc[s].ruleId < ruleIdCounter)
    /\ [][/\ \A n \in Allocated : n >= ruleIdCounter /\ n < ruleIdCounter'
          /\ ruleIdCounter' < ruleIdCounter =>
                \E s \in Slots : /\ proc[s].pc \in {"in_get", "in_rm"}
                                 /\ proc'[s].pc \notin {"in_get", "in_rm"}]_vars

\* an identifier was released, and createCharsetRule holds one returned later
C17_Witness ==
    \E s \in Slots, n \in 1..MaxRuleId :
        /\ proc[s].pc = "cr_get"
        /\ n < proc[s].ruleId
        /\ n \notin usedRuleIds
        /\ n \notin RuleIds(engine)

\* the identifiers activeRules holds
MapIds(m) == {m[i][2] : i \in DOMAIN m}

\* C18: when two createCharsetRule calls for the same hostname H, made by two
\* handlers that interleave, have both completed and both handlers are done,
\* the engine holds exactly one rule for H, activeRules maps H to that rule's
\* id, and usedRuleIds holds no id that activeRules does not hold.
C18_SameHostRaceSettles ==
    (/\ \A s \in Slots : proc[s].pc = "done" /\ proc[s].called
     /\ proc["p"].host = proc["q"].host) =>
        LET h == proc["p"].host
        IN  /\ \E r \in engine : /\ Matching(engine, h) = {r}
                                 /\ Get(activeRules, h, NoRule) = r.id
            /\ usedRuleIds \subseteq MapIds(activeRules)

\* C19: when two apply handlers for different hostnames, interleaving at their
\* awaited calls, are both done, the engine holds one rule for each hostname
\* with the charset applied, the two rules have distinct ids, activeRules maps
\* each hostname to its rule, and charset_settings holds both intents.
C19_DifferentHostsCommute ==
    (/\ \A s \in Slots : proc[s].pc = "done" /\ proc[s].called
     /\ proc["p"].host # proc["q"].host) =>
        /\ \A s \in Slots :
              /\ \E r \in engine : /\ Matching(engine, proc[s].host) = {r}
                                   /\ Rewrites(r, proc[s].charset)
                                   /\ Get(activeRules, proc[s].host, NoRule) = r.id
              /\ Intent(store, proc[s].host) = proc[s].charset
        /\ Get(activeRules, proc["p"].host, NoRule) # Get(activeRules, proc["q"].host, NoRule)

\* C20: when a tabs.onUpdated event (status 'complete') for hostname H has been
\* handled: if charset_settings held H -> C and activeRules had no entry for H
\* when the event arrived, the engine holds a rule for H carrying C and
\* activeRules has an entry for H; otherwise engine, map, allocator and store
\* are as they were when the event arrived.
C20_TabReconciles ==
    \A s \in Slots :
        LET f == proc[s]
            C == Intent(f.pre.store, f.host)
        IN  (f.op = "tabUpdated" /\ f.pc = "done") =>
                IF C # NoCharset /\ ~Has(f.pre.activeRules, f.host)
                THEN /\ \E r \in Matching(engine, f.host) :
                            Rewrites(r, C) /\ Get(activeRules, f.host, NoRule) = r.id
                     /\ Has(activeRules, f.host)
                ELSE Snapshot = f.pre

\* a tab event has re-installed the rule of a hostname whose intent was
\* persisted and which the worker, restarted since, did not track
C20_Witness ==
    \E s \in Slots :
        /\ proc[s].op = "tabUpdated" /\ proc[s].pc = "done"
        /\ proc[s].called
        /\ Matching(proc[s].pre.engine, proc[s].host) # {}
        /\ proc[s].ret \notin RuleIds(proc[s].pre.engine)

\* C21: a failed store write is reported as a failure.  When createCharsetRule
\* has returned a ruleId to an apply handler, the persisted active_rules is the
\* snapshot it saved; when an 'updateCharset' message has been answered
\* { success: true }, charset_settings holds the hostname's charset.
C21_WriteFailureReported ==
    \A s \in Slots :
        LET f == proc[s]
        IN  /\ (f.op \in ApplyOps /\ f.pc = "sv_get" /\ f.ret # NoRule) =>
                    store.active_rules = f.snap
            /\ (f.op = "msgUpdate" /\ f.pc = "done" /\ f.resp = "success") =>
                    Intent(store, f.host) = f.charset

\* C22: when createCharsetRule(H, C2) has returned in a worker that, restarted
\* since, tracked nothing for H while the engine held a rule matching H, the
\* engine holds exactly one rule matching H and that rule carries C2.
C22_OneRuleAfterRestart ==
    \A s \in Slots :
        LET f == proc[s]
        IN  (/\ CreateReturned(s)
             /\ Matching(f.pre.engine, f.host) # {}
             /\ ~Has(f.pre.activeRules, f.host)) =>
                \E r \in engine : /\ Matching(engine, f.host) = {r}
                                  /\ Rewrites(r, f.charset)

\* C23: when a reset of hostname H (menu click or 'removeCharset' message) has
\* been handled, the engine holds no rule matching H, also in a worker that was
\* restarted and tracks none of the rules the engine kept.
C23_ResetLeavesNoRule ==
    \A s \in Slots :
        (proc[s].op \in ResetOps /\ proc[s].pc = "done") =>
            Matching(engine, proc[s].host) = {}

\* C24: when a reset of hostname H and a tabs.onUpdated event for H, handled
\* by two handlers that interleave, are both done, the engine holds no rule
\* matching H, activeRules has no entry for H and charset_settings has no
\* intent for H.
C24_ResetNotUndone ==
    (/\ proc["p"].op \in ResetOps /\ proc["p"].pc = "done"
     /\ proc["q"].op = "tabUpdated" /\ proc["q"].pc = "done"
     /\ proc["p"].host = proc["q"].host) =>
        LET h == proc["p"].host
        IN  /\ Matching(engine, h) = {}
            /\ ~Has(activeRules, h)
            /\ Intent(store, h) = NoCharset

\* no call of the RuleManager is in progress in any handler
ManagerIdle ==
    \A s \in Slots :
        proc[s].pc \in {"idle", "done", "sv_get", "sv_set", "rs_get", "rs_set",
                        "gs_get", "tb_get", "menus", "tab_create"}

\* C25: with handlers run one at a time, starting from the state a completed
\* initialize() leaves, whenever no RuleManager call is in progress: for every
\* entry H -> i of activeRules the engine holds a rule with id i matching H,
\* and every rule of the engine is the value of an entry of activeRules.
C25_MapAgreesWithEngine ==
    ManagerIdle =>
        /\ \A i \in DOMAIN activeRules :
              \E r \in Matching(engine, activeRules[i][1]) : r.id = activeRules[i][2]
        /\ Untracked(engine, activeRules) = {}

\* two hostnames have rules, one of them installed in place of an earlier rule
\* or after a reset, and a handler is between two RuleManager calls
C25_Witness ==
    /\ ManagerIdle
    /\ Len(activeRules) = 2
    /\ Cardinality(engine) = 2
    /\ ruleIdCounter > 3
    /\ \E s \in Slots : proc[s].pc = "sv_get"

\* C26: whenever no RuleManager call is in progress, the active_rules snapshot
\* in the store is the list of (hostname, ruleId) entries of activeRules.
C26_SnapshotMatchesMap ==
    ManagerIdle => store.active_rules = activeRules

\* C27: an apply or a reset of hostname H, at every step of its handler and
\* when it is done, has left every other hostname H' as it was when the event
\* arrived: the engine rules matching H', the entry of H' in activeRules, the
\* membership of that entry's id in usedRuleIds and the intent stored for H'.
C27_OtherHostsUntouched ==
    \A s \in Slots :
        LET f == proc[s]
        IN  f.op \in ApplyOps \cup ResetOps =>
                \A h \in Hosts \ {f.host} :
                    LET i == Get(f.pre.activeRules, h, NoRule)
                    IN  /\ Matching(engine, h) = Matching(f.pre.engine, h)
                        /\ Get(activeRules, h, NoRule) = i
                        /\ (i \in usedRuleIds) <=> (i \in f.pre.usedRuleIds)
                        /\ Intent(store, h) = Intent(f.pre.store, h)

\* an apply or reset of H is done and has changed the rules of H, while
\* another hostname has a rule, a map entry and a stored intent
C27_Witness ==
    \E s \in Slots, h \in Hosts :
        /\ proc[s].op \in ApplyOps \cup ResetOps /\ proc[s].pc = "done"
        /\ h # proc[s].host
        /\ Matching(engine, proc[s].host) # Matching(proc[s].pre.engine, proc[s].host)
        /\ Matching(engine, h) # {}
        /\ Has(activeRules, h)
        /\ Intent(store, h) # NoCharset

\* the identifiers the createCharsetRule call of handler s has drawn and given
\* up because the engine held them: the call began with the counter the event
\* arrived at and each retry took the next one
Skipped(s) ==
    IF /\ proc[s].op \in ApplyOps \cup {"tabUpdated"}
       /\ proc[s].pc \in {"cr_get", "cr_add", "cr_save"}
    THEN proc[s].pre.ruleIdCounter .. (proc[s].ruleId - 1)
    ELSE {}

\* C28: while the engine rejects only identifiers it holds, createCharsetRule
\* retries at most n times, n the number of rules the engine held when the
\* call began: every identifier it gave up is the id of one of those rules and
\* each retry drew a larger one.  The identifiers given up are in usedRuleIds,
\* and an identifier of usedRuleIds that no map entry holds leaves the set in
\* no step but the reset of initialize() or the construction of a new
\* RuleManager.
C28_RetriesBoundedByEngine ==
    /\ [](\A s \in Slots :
            /\ Cardinality(Skipped(s)) <= Cardinality(proc[s].pre.engine)
            /\ Skipped(s) \subseteq RuleIds(proc[s].pre.engine)
            /\ Skipped(s) \subseteq usedRuleIds
            /\ \A k \in Skipped(s) : k < proc[s].ruleId)
    /\ [][\A k \in usedRuleIds \ MapIds(activeRules) :
            k \notin usedRuleIds' =>
                \/ \E s \in Slots : /\ proc[s].pc \in {"in_get", "in_rm"}
                                    /\ proc'[s].pc \notin {"in_get", "in_rm"}
                \/ AllIdle /\ ruleIdCounter' = InitialCounter]_vars

\* a createCharsetRule call has given up two identifiers held by rules of an
\* earlier worker and has installed its rule under a third
C28_Witness ==
    \E s \in Slots :
        /\ Cardinality(Skipped(s)) = 2
        /\ proc[s].pc = "cr_save"
        /\ proc[s].ruleId \in RuleIds(engine)

====
